---- MODULE Spec2Model ----
\* SISTec college-enquiry chatbot: the Flask application (backend/app.py) over
\* its two PostgreSQL tables, and the AI agent (agents/admission_agent.py).
\*
\* Five specifications:
\*   Spec      the web application as shipped;
\*   SpecUsers its account and student-side handlers, with a second student;
\*   SpecLedger the query ledger: chat_api over the double named under
\*             SpecStub, and admin_answer_query;
\*   SpecStub  the web application with exponential_backoff_fetch replaced by
\*             a synchronous double that returns any value its body can return;
\*   SpecFetch the agent module alone against a scripted transport.
EXTENDS Integers, Sequences, FiniteSets, TLC

\* ---------------------------------------------------------------- bounds
MaxWorkers == 2   \* request threads in flight at once
MaxChats   == 2   \* values drawn from chat_history's SERIAL id sequence
MaxUsers   == 2   \* values drawn from users' SERIAL id sequence after the admin's
MaxClock   == 3   \* distinct transaction timestamps

\* ------------------------------------------------------------ text values
\* A text is a sequence of phrases; Python's `marker in text` is phrase
\* containment. None / SQL NULL is the one-phrase text NULL.
NULL  == <<"<NULL>">>
EMPTY == << >>

UNAVAILABLE_MARK == "AI system is currently unavailable"
SORRY_MARK       == "Sorry, I am currently unable to fetch an answer"

SORRY_MSG ==
  <<SORRY_MARK, " due to network or server issues. Your query has been forwarded to the Admin.">>
NOTEXT_MSG ==
  <<"I couldn't generate a clear response. Your query might be too complex or unclear. Please try rephrasing.">>
UNAVAILABLE_MSG ==
  <<UNAVAILABLE_MARK, ". We have recorded your query and will have an admin respond soon.">>
FALLBACK_MSG ==
  <<"I couldn't process this query due to an external service error. The query has been forwarded to the Admin team for manual review.">>

Contains(mark, text) == \E i \in 1..Len(text) : text[i] = mark

Falsy(text) == text = NULL \/ text = EMPTY

\* Inputs of the requests.
QUERY_TEXT  == <<"eligibility">>
QueryInputs == {NULL, EMPTY, QUERY_TEXT}
AdminTexts  == {<<"Admin answer A">>, <<"Admin answer B">>}
AdminInputs == AdminTexts \cup {NULL}
\* Answer texts the AI service can produce: a plain one, and one that quotes
\* one of the agent's own failure phrases.
PLAIN_ANSWER  == <<"Minimum eligibility is 60%">>
QUOTED_ANSWER == <<"The portal shows: ", UNAVAILABLE_MARK>>
AiTexts == {PLAIN_ANSWER, QUOTED_ANSWER}

ADMIN_EMAIL    == "admin@sistec.com"
STUDENT_EMAIL  == "student@sistec.com"
OTHER_EMAIL    == "other@sistec.com"
Emails         == {ADMIN_EMAIL, STUDENT_EMAIL}
AllEmails      == Emails \cup {OTHER_EMAIL}
Passwords      == {"admin", "secret"}
Clients        == {"browser"}

generate_password_hash(password) == <<"pbkdf2:sha256", password>>
\* Mutant: the stored hash is compared with the password itself.
check_password_hash_Plain(pwhash, password) == pwhash = <<password>>
check_password_hash(pwhash, password) == pwhash = generate_password_hash(password)

\* ------------------------------------------------------------------ state
VARIABLES
  users,        \* committed rows of table users: id -> row
  users_seq,    \* last value of users_id_seq
  chat_history, \* committed rows of table chat_history: id -> row
  chat_seq,     \* last value of chat_history_id_seq
  now,          \* the database clock (CURRENT_TIMESTAMP of the last transaction)
  session,      \* each client's signed session cookie
  reqs,         \* the requests in flight: position, locals, open transaction
  resp,         \* the HTTP response sent last
  script,       \* agent: what the transport answers to the k-th request
  entry,        \* agent: which function the run calls
  f_pc,         \* agent: position in exponential_backoff_fetch / get_ai_response
  attempt,      \* agent: the loop variable of exponential_backoff_fetch
  sent,         \* agent: requests.post calls made
  sleeps,       \* agent: time.sleep calls made, in order
  response_data,\* agent: what exponential_backoff_fetch handed back
  ai_result     \* agent: what get_ai_response returned

webvars   == <<users, users_seq, chat_history, chat_seq, now, session, reqs, resp>>
agentvars == <<script, entry, f_pc, attempt, sent, sleeps, response_data, ai_result>>
vars      == <<users, users_seq, chat_history, chat_seq, now, session, reqs, resp,
               script, entry, f_pc, attempt, sent, sleeps, response_data, ai_result>>

\* ======================================================================
\* agents/admission_agent.py
\* ======================================================================
max_retries == 5

\* What the transport (requests.post + raise_for_status + response.json) can
\* do with one request.
Json(candidates, text) ==
  [kind |-> "json", status |-> 200, candidates |-> candidates, text |-> text]
HttpError(status) ==
  [kind |-> "HTTPError", status |-> status, candidates |-> "missing", text |-> NULL]
TransportError(kind) ==
  [kind |-> kind, status |-> 0, candidates |-> "missing", text |-> NULL]

Outcomes ==
  {Json("one", PLAIN_ANSWER), Json("one", NULL)}
    \cup {HttpError(s) : s \in {429, 500, 502, 503, 404}}
    \cup {TransportError("ConnectionError"), TransportError("Timeout")}

\* Values of the name response_data in get_ai_response.
NONE      == [kind |-> "None", candidates |-> "missing", text |-> NULL]
COROUTINE == [kind |-> "coroutine", candidates |-> "missing", text |-> NULL]
Dict(candidates, text) == [kind |-> "dict", candidates |-> candidates, text |-> text]
NOT_CALLED == [kind |-> "unset", candidates |-> "missing", text |-> NULL]

\* exponential_backoff_fetch is declared `async def`: calling it runs none of
\* its body and evaluates to a coroutine object.
exponential_backoff_fetch_call == COROUTINE

\* The body of get_ai_response after the call of the helper.
get_ai_response(rd) ==
  IF rd.kind = "None" THEN SORRY_MSG
  ELSE IF rd.kind # "dict" THEN UNAVAILABLE_MSG      \* no attribute 'get'
  ELSE IF rd.candidates = "empty" THEN UNAVAILABLE_MSG \* [][0]: IndexError
  ELSE LET text_part == IF rd.candidates = "missing" THEN NULL ELSE rd.text
       IN  IF ~Falsy(text_part) THEN text_part ELSE NOTEXT_MSG

\* The status codes the HTTPError handler retries.
RetryStatuses == {429, 500, 503}

JitterMs == {0, 1000}

\* One iteration of `for attempt in range(max_retries)`: the request succeeds
\* and its JSON is returned.
FetchReturn ==
  /\ entry = "exponential_backoff_fetch" /\ f_pc = "loop"
  /\ attempt < max_retries
  /\ script[attempt + 1].kind = "json"
  /\ sent' = sent + 1
  /\ response_data' = Dict(script[attempt + 1].candidates, script[attempt + 1].text)
  /\ f_pc' = "returned"
  /\ UNCHANGED <<script, entry, attempt, sleeps, ai_result>>
  /\ UNCHANGED webvars

\* raise_for_status raised HTTPError with a retried status and attempts remain:
\* sleep 2**attempt + uniform(0, 1) and go round again.
FetchRetry ==
  /\ entry = "exponential_backoff_fetch" /\ f_pc = "loop"
  /\ attempt < max_retries
  /\ script[attempt + 1].kind = "HTTPError"
  /\ script[attempt + 1].status \in RetryStatuses
  /\ attempt < max_retries - 1
  /\ sent' = sent + 1
  /\ \E j \in JitterMs :
       sleeps' = Append(sleeps, [base |-> 2 ^ attempt, jitter_ms |-> j])
  /\ attempt' = attempt + 1
  /\ UNCHANGED <<script, entry, f_pc, response_data, ai_result>>
  /\ UNCHANGED webvars

\* HTTPError with any other status, or on the last attempt: break, return None.
FetchHttpBreak ==
  /\ entry = "exponential_backoff_fetch" /\ f_pc = "loop"
  /\ attempt < max_retries
  /\ script[attempt + 1].kind = "HTTPError"
  /\ ~ (script[attempt + 1].status \in RetryStatuses /\ attempt < max_retries - 1)
  /\ sent' = sent + 1
  /\ response_data' = NONE
  /\ f_pc' = "returned"
  /\ UNCHANGED <<script, entry, attempt, sleeps, ai_result>>
  /\ UNCHANGED webvars

\* Any other exception (connection error, timeout): break, return None.
FetchExceptionBreak ==
  /\ entry = "exponential_backoff_fetch" /\ f_pc = "loop"
  /\ attempt < max_retries
  /\ script[attempt + 1].kind \notin {"json", "HTTPError"}
  /\ sent' = sent + 1
  /\ response_data' = NONE
  /\ f_pc' = "returned"
  /\ UNCHANGED <<script, entry, attempt, sleeps, ai_result>>
  /\ UNCHANGED webvars

\* get_ai_response(query_text), start to return.
GetAiResponse ==
  /\ entry = "get_ai_response" /\ f_pc = "loop"
  /\ response_data' = exponential_backoff_fetch_call
  /\ ai_result' = get_ai_response(response_data')
  /\ f_pc' = "returned"
  /\ UNCHANGED <<script, entry, attempt, sent, sleeps>>
  /\ UNCHANGED webvars

AgentInit ==
  /\ script \in [1..max_retries -> Outcomes]
  /\ entry \in {"exponential_backoff_fetch", "get_ai_response"}
  /\ f_pc = "loop"
  /\ attempt = 0
  /\ sent = 0
  /\ sleeps = << >>
  /\ response_data = NOT_CALLED
  /\ ai_result = NULL

\* The agent part of the state while the web application runs: no transport
\* is scripted, the requests' AI calls are part of ChatApiStart.
AgentIdle ==
  /\ script = << >>
  /\ entry = "get_ai_response"
  /\ f_pc = "loop"
  /\ attempt = 0
  /\ sent = 0
  /\ sleeps = << >>
  /\ response_data = NOT_CALLED
  /\ ai_result = NULL

\* ======================================================================
\* backend/app.py
\* ======================================================================
NoSession == [user_id |-> 0, user_role |-> "none"]

\* A request in flight: its position, its locals and its open transaction.
\* At most MaxWorkers requests are in flight.
Request(pc, user_id, chat_id, ts) ==
  [pc |-> pc, user_id |-> user_id, chat_id |-> chat_id, ts |-> ts, query |-> NULL,
   ai_response_text |-> NULL, text |-> NULL, status |-> "none"]

WorkerFree == Cardinality(reqs) < MaxWorkers

\* An HTTP response: the handler, the status code, and of the JSON body the
\* fields 'response' (text), 'status', 'message' and the listed rows' ids;
\* location is the target of a redirect; rowcount is cursor.rowcount of the
\* handler's UPDATE (-1: none ran), waited whether that UPDATE had to wait
\* for a row lock.
Response(handler, http) ==
  [handler |-> handler, http |-> http, chat_id |-> 0, text |-> NULL,
   status |-> "none", rowcount |-> -1, waited |-> FALSE, rows |-> << >>,
   message |-> "", location |-> ""]

\* redirect(url_for(endpoint))
Redirect(handler, endpoint) == [Response(handler, 302) EXCEPT !.location = endpoint]

\* jsonify({'message': message}), http
Message(handler, http, message) == [Response(handler, http) EXCEPT !.message = message]

\* db_initialize: both tables exist, the default admin is users row 1.
WebInit ==
  /\ users = (1 :> [email |-> ADMIN_EMAIL,
                    password_hash |-> generate_password_hash("admin"),
                    user_role |-> "admin"])
  /\ users_seq = 1
  /\ chat_history = << >>
  /\ chat_seq = 0
  /\ now = 0
  /\ session = [c \in Clients |-> NoSession]
  /\ reqs = {}
  /\ resp = Response("none", 0)

\* Mutant: the decorator tests only that a user_id is in the session.
login_required_AnyRole(c) == session[c].user_id # 0

\* login_required / admin_required: the condition under which the body runs.
login_required(c) == session[c].user_id # 0 /\ session[c].user_role = "student"
admin_required(c) == session[c].user_id # 0 /\ session[c].user_role = "admin"

UsersWhere(email, role) ==
  {u \in DOMAIN users : users[u].email = email /\ users[u].user_role = role}

\* A form field the request does not carry: request.form[key] raises
\* BadRequestKeyError.
MISSING == "<missing>"

\* Mutant: the email is unique among the students only.
UniqueViolation_AmongStudents(email) == UsersWhere(email, "student") # {}

\* email VARCHAR(100) UNIQUE: the INSERT raises UniqueViolation.
UniqueViolation(email) == \E u \in DOMAIN users : users[u].email = email

\* POST /register
register(c, full_name, email, password, db) ==
  /\ IF ~db
     THEN /\ resp' = Message("register", 500, "Registration failed due to server error (DB).")
          /\ UNCHANGED <<users, users_seq, session>>
     ELSE IF MISSING \in {full_name, email, password}
     THEN \* the KeyError is raised inside the try: except Exception, rollback
          /\ resp' = Message("register", 500, "Registration failed: 400 Bad Request")
          /\ UNCHANGED <<users, users_seq, session>>
     ELSE /\ users_seq < 1 + MaxUsers
          /\ users_seq' = users_seq + 1
          /\ IF UniqueViolation(email)
             THEN \* except psycopg2.errors.UniqueViolation: rollback
                  /\ resp' = Message("register", 409, "Email already registered.")
                  /\ UNCHANGED <<users, session>>
             ELSE /\ users' = users @@ (users_seq' :>
                       [email |-> email,
                        password_hash |-> generate_password_hash(password),
                        user_role |-> "student"])
                  /\ session' = [session EXCEPT ![c] =
                       [user_id |-> users_seq', user_role |-> "student"]]
                  /\ resp' = Message("register", 200, "Registration successful.")
  /\ UNCHANGED <<chat_history, chat_seq, now, reqs>>
  /\ UNCHANGED agentvars

INVALID_MSG == "Invalid email or password."

\* Mutant: an email with no row of the role is answered 404.
Login_TellsUnknown(handler, role, c, email, password, db) ==
  /\ IF ~db
     THEN /\ resp' = Message(handler, 500, "Login failed due to server error.")
          /\ UNCHANGED session
     ELSE LET found == UsersWhere(email, role) IN
          IF \E u \in found : check_password_hash(users[u].password_hash, password)
          THEN LET u == CHOOSE u \in found : TRUE IN
               /\ session' = [session EXCEPT ![c] = [user_id |-> u, user_role |-> role]]
               /\ resp' = Message(handler, 200,
                             IF role = "admin" THEN "Admin Login successful."
                                               ELSE "Login successful.")
          ELSE /\ resp' = IF found = {} THEN Message(handler, 404, "No such user.")
                          ELSE Message(handler, 401, INVALID_MSG)
               /\ UNCHANGED session
  /\ UNCHANGED <<users, users_seq, chat_history, chat_seq, now, reqs>>
  /\ UNCHANGED agentvars

\* POST /login and POST /admin_login
Login(handler, role, c, email, password, db) ==
  /\ IF ~db
     THEN /\ resp' = Message(handler, 500, "Login failed due to server error.")
          /\ UNCHANGED session
     ELSE LET found == UsersWhere(email, role) IN
          IF \E u \in found : check_password_hash(users[u].password_hash, password)
          THEN LET u == CHOOSE u \in found : TRUE IN
               /\ session' = [session EXCEPT ![c] = [user_id |-> u, user_role |-> role]]
               /\ resp' = Message(handler, 200,
                             IF role = "admin" THEN "Admin Login successful."
                                               ELSE "Login successful.")
          ELSE /\ resp' = Message(handler, 401, INVALID_MSG)
               /\ UNCHANGED session
  /\ UNCHANGED <<users, users_seq, chat_history, chat_seq, now, reqs>>
  /\ UNCHANGED agentvars

student_login(c, email, password, db) ==
  Login("student_login", "student", c, email, password, db)

admin_login(c, email, password, db) ==
  Login("admin_login", "admin", c, email, password, db)

\* Mutant: session.pop('user_id') in place of session.clear().
logout_PopsUserId(c) ==
  /\ session' = [session EXCEPT ![c].user_id = 0]
  /\ resp' = Redirect("logout", "home")
  /\ UNCHANGED <<users, users_seq, chat_history, chat_seq, now, reqs>>
  /\ UNCHANGED agentvars

\* GET /logout
logout(c) ==
  /\ session' = [session EXCEPT ![c] = NoSession]
  /\ resp' = Redirect("logout", "home")
  /\ UNCHANGED <<users, users_seq, chat_history, chat_seq, now, reqs>>
  /\ UNCHANGED agentvars

\* GET /user
student_dashboard(c) ==
  /\ resp' = IF ~login_required(c) THEN Redirect("student_dashboard", "student_login")
             ELSE Response("student_dashboard", 200)
  /\ UNCHANGED <<users, users_seq, chat_history, chat_seq, now, session, reqs>>
  /\ UNCHANGED agentvars

\* GET /admin_dashboard
admin_dashboard(c) ==
  /\ resp' = IF ~admin_required(c) THEN Redirect("admin_dashboard", "admin_login")
             ELSE Response("admin_dashboard", 200)
  /\ UNCHANGED <<users, users_seq, chat_history, chat_seq, now, session, reqs>>
  /\ UNCHANGED agentvars

\* ---- POST /api/chat ---------------------------------------------------
\* Step 3 of chat_api: the test that takes the agent's text for a failure.
IsFallback(ai_response_text) ==
  \/ Contains(UNAVAILABLE_MARK, ai_response_text)
  \/ Contains(SORRY_MARK, ai_response_text)

ChatStatus(ai_response_text) ==
  IF IsFallback(ai_response_text) THEN "pending" ELSE "answered"

ChatResponseToUser(ai_response_text) ==
  IF IsFallback(ai_response_text) THEN FALLBACK_MSG ELSE ai_response_text

\* response_time is nullable; the clock starts after this value.
NULL_TIME == 0

\* Mutant: chat_api's UPDATE also sets is_admin_response = TRUE.
ChatRow_AdminFlag(r) ==
  [user_id |-> r.user_id, query_text |-> r.query, query_time |-> r.ts,
   response_text |-> r.text, response_time |-> r.ts,
   query_status |-> r.status, is_admin_response |-> TRUE]

\* The row as chat_api's transaction leaves it: the INSERT (status 'co',
\* column defaults) followed by the UPDATE of step 4. CURRENT_TIMESTAMP is
\* the transaction's start time in both statements.
ChatRow(r) ==
  [user_id |-> r.user_id, query_text |-> r.query, query_time |-> r.ts,
   response_text |-> r.text, response_time |-> r.ts,
   query_status |-> r.status, is_admin_response |-> FALSE]

\* The handler up to the end of step 3: guard, validation, connection,
\* INSERT ... RETURNING id (uncommitted), the AI call and its classification.
\* rd is what the call of exponential_backoff_fetch evaluates to.
ChatApiStart(c, q, db, rd) ==
  /\ WorkerFree
  /\ IF ~login_required(c)
     THEN /\ resp' = Redirect("chat_api", "student_login")
          /\ UNCHANGED <<chat_seq, now, reqs>>
     ELSE IF Falsy(q)
     THEN /\ resp' = Response("chat_api", 400)
          /\ UNCHANGED <<chat_seq, now, reqs>>
     ELSE IF ~db
     THEN /\ resp' = Response("chat_api", 500)
          /\ UNCHANGED <<chat_seq, now, reqs>>
     ELSE /\ chat_seq < MaxChats
          /\ now < MaxClock
          /\ chat_seq' = chat_seq + 1
          /\ now' = now + 1
          /\ LET ai_response_text == get_ai_response(rd) IN
             reqs' = reqs \cup
               {[Request("inserted", session[c].user_id, chat_seq', now') EXCEPT
                   !.query = q,
                   !.ai_response_text = ai_response_text,
                   !.status = ChatStatus(ai_response_text),
                   !.text = ChatResponseToUser(ai_response_text)]}
          /\ UNCHANGED resp
  /\ UNCHANGED <<users, users_seq, chat_history, session>>
  /\ UNCHANGED agentvars

\* Step 4 and 5: the UPDATE, the commit, the 200 response.
ChatApiCommit(r) ==
  /\ r.pc = "inserted"
  /\ chat_history' = chat_history @@ (r.chat_id :> ChatRow(r))
  /\ resp' = [Response("chat_api", 200) EXCEPT
                !.chat_id = r.chat_id, !.text = r.text,
                !.status = r.status, !.rowcount = 1]
  /\ reqs' = reqs \ {r}
  /\ UNCHANGED <<users, users_seq, chat_seq, now, session>>
  /\ UNCHANGED agentvars

\* Mutant: the except branch commits what the transaction did so far, the
\* INSERT with status 'co', in place of rolling it back.
ChatApiError_KeepsInsert(r) ==
  /\ r.pc = "inserted"
  /\ chat_history' = chat_history @@ (r.chat_id :>
        [ChatRow(r) EXCEPT !.query_status = "co", !.response_text = NULL,
                           !.response_time = NULL_TIME])
  /\ resp' = [Response("chat_api", 500) EXCEPT
                !.chat_id = r.chat_id, !.rowcount = 0]
  /\ reqs' = reqs \ {r}
  /\ UNCHANGED <<users, users_seq, chat_seq, now, session>>
  /\ UNCHANGED agentvars

\* The except branch: the UPDATE or the commit raised. conn.rollback() undoes
\* the INSERT, so the fallback UPDATE ... WHERE id = chat_id finds no row.
ChatApiError(r) ==
  /\ r.pc = "inserted"
  /\ resp' = [Response("chat_api", 500) EXCEPT
                !.chat_id = r.chat_id, !.rowcount = 0]
  /\ reqs' = reqs \ {r}
  /\ UNCHANGED <<users, users_seq, chat_history, chat_seq, now, session>>
  /\ UNCHANGED agentvars

\* ---- GET /api/chat_history and GET /api/admin/pending_queries ----------
QueryTime(id) == chat_history[id].query_time

\* Mutant: ORDER BY query_time DESC.
RECURSIVE OrderByQueryTimeDesc(_)
OrderByQueryTimeDesc(S) ==
  IF S = {} THEN << >>
  ELSE LET first == CHOOSE x \in S : \A y \in S : QueryTime(x) >= QueryTime(y)
       IN  <<first>> \o OrderByQueryTimeDesc(S \ {first})

\* ORDER BY query_time ASC over the rows with ids in S.
RECURSIVE OrderByQueryTimeAsc(_)
OrderByQueryTimeAsc(S) ==
  IF S = {} THEN << >>
  ELSE LET first == CHOOSE x \in S : \A y \in S : QueryTime(x) <= QueryTime(y)
       IN  <<first>> \o OrderByQueryTimeAsc(S \ {first})

\* Mutant: the SELECT without its WHERE clause.
ChatHistoryOf_Everyone(user_id) == OrderByQueryTimeAsc(DOMAIN chat_history)

\* SELECT ... FROM chat_history WHERE user_id = %s ORDER BY query_time ASC
ChatHistoryOf(user_id) ==
  OrderByQueryTimeAsc({id \in DOMAIN chat_history : chat_history[id].user_id = user_id})

get_chat_history(c, db) ==
  /\ resp' = IF ~login_required(c) THEN Redirect("get_chat_history", "student_login")
             ELSE IF ~db THEN Response("get_chat_history", 500)
             ELSE [Response("get_chat_history", 200) EXCEPT
                     !.rows = ChatHistoryOf(session[c].user_id)]
  /\ UNCHANGED <<users, users_seq, chat_history, chat_seq, now, session, reqs>>
  /\ UNCHANGED agentvars

\* Mutant: the SELECT filters on the INSERT's transient status 'co'.
PendingQueries_StatusCo ==
  OrderByQueryTimeAsc({id \in DOMAIN chat_history :
                         /\ chat_history[id].user_id \in DOMAIN users
                         /\ chat_history[id].query_status = "co"})

\* SELECT ... FROM chat_history ch JOIN users u ON ch.user_id = u.id
\* WHERE ch.query_status = 'pending' ORDER BY ch.query_time ASC
PendingQueries ==
  OrderByQueryTimeAsc({id \in DOMAIN chat_history :
                         /\ chat_history[id].user_id \in DOMAIN users
                         /\ chat_history[id].query_status = "pending"})

get_pending_queries(c, db) ==
  /\ resp' = IF ~admin_required(c) THEN Redirect("get_pending_queries", "admin_login")
             ELSE IF ~db THEN Response("get_pending_queries", 500)
             ELSE [Response("get_pending_queries", 200) EXCEPT !.rows = PendingQueries]
  /\ UNCHANGED <<users, users_seq, chat_history, chat_seq, now, session, reqs>>
  /\ UNCHANGED agentvars

\* ---- POST /api/admin/answer_query -------------------------------------
\* The row is write-locked by a request's open UPDATE.
Locked(id) == \E v \in reqs : v.pc = "updated" /\ v.chat_id = id

\* Mutant: WHERE id = %s, without the test of query_status.
AnswerMatches_IdOnly(id) == id \in DOMAIN chat_history

\* WHERE id = %s AND query_status = 'pending'
AnswerMatches(id) ==
  /\ id \in DOMAIN chat_history
  /\ chat_history[id].query_status = "pending"

\* SET response_text = %s, response_time = CURRENT_TIMESTAMP,
\*     query_status = 'answered', is_admin_response = TRUE
AnswerRow(row, admin_response, ts) ==
  [row EXCEPT !.response_text = admin_response, !.response_time = ts,
              !.query_status = "answered", !.is_admin_response = TRUE]

\* The handler up to the rowcount test: guard, validation, connection, the
\* UPDATE; with rowcount 0 the rollback and the 404. An UPDATE that finds its
\* row write-locked waits for the lock holder to end.
AdminAnswerStart(c, chat_id, admin_response, db) ==
  /\ WorkerFree
  /\ IF ~admin_required(c)
     THEN /\ resp' = Redirect("admin_answer_query", "admin_login")
          /\ UNCHANGED <<now, reqs>>
     ELSE IF chat_id = 0 \/ Falsy(admin_response)
     THEN /\ resp' = Response("admin_answer_query", 400)
          /\ UNCHANGED <<now, reqs>>
     ELSE IF ~db
     THEN /\ resp' = Response("admin_answer_query", 500)
          /\ UNCHANGED <<now, reqs>>
     ELSE IF AnswerMatches(chat_id)
     THEN /\ now < MaxClock
          /\ now' = now + 1
          /\ reqs' = reqs \cup
               {[Request(IF Locked(chat_id) THEN "waiting" ELSE "updated",
                         session[c].user_id, chat_id, now') EXCEPT
                   !.text = admin_response]}
          /\ UNCHANGED resp
     ELSE /\ resp' = [Response("admin_answer_query", 404) EXCEPT
                        !.chat_id = chat_id, !.rowcount = 0]
          /\ UNCHANGED <<now, reqs>>
  /\ UNCHANGED <<users, users_seq, chat_history, chat_seq, session>>
  /\ UNCHANGED agentvars

\* The lock holder has ended: the waiting UPDATE tests its WHERE clause on
\* the row as now committed, and the handler goes on to the rowcount test.
AdminAnswerResume(r) ==
  /\ r.pc = "waiting"
  /\ ~Locked(r.chat_id)
  /\ IF AnswerMatches(r.chat_id)
     THEN /\ reqs' = (reqs \ {r}) \cup {[r EXCEPT !.pc = "updated"]}
          /\ UNCHANGED resp
     ELSE /\ resp' = [Response("admin_answer_query", 404) EXCEPT
                        !.chat_id = r.chat_id, !.rowcount = 0,
                        !.waited = TRUE]
          /\ reqs' = reqs \ {r}
  /\ UNCHANGED <<users, users_seq, chat_history, chat_seq, now, session>>
  /\ UNCHANGED agentvars

\* conn.commit() and the 200 response.
AdminAnswerCommit(r) ==
  /\ r.pc = "updated"
  /\ chat_history' = [chat_history EXCEPT ![r.chat_id] =
                        AnswerRow(@, r.text, r.ts)]
  /\ resp' = [Response("admin_answer_query", 200) EXCEPT
                !.chat_id = r.chat_id, !.text = r.text, !.rowcount = 1]
  /\ reqs' = reqs \ {r}
  /\ UNCHANGED <<users, users_seq, chat_seq, now, session>>
  /\ UNCHANGED agentvars

\* The except branch: the commit raised; rollback and 500.
AdminAnswerError(r) ==
  /\ r.pc = "updated"
  /\ resp' = [Response("admin_answer_query", 500) EXCEPT !.chat_id = r.chat_id]
  /\ reqs' = reqs \ {r}
  /\ UNCHANGED <<users, users_seq, chat_history, chat_seq, now, session>>
  /\ UNCHANGED agentvars

\* ======================================================================
\* Specifications
\* ======================================================================
ChatIdInputs == 0..MaxChats

\* The registration forms with the second student's.
UserForms ==
  {[full_name |-> "Student", email |-> e, password |-> "secret"] : e \in AllEmails}

\* The registration forms: complete ones, and one per required field left out.
RegisterForms ==
  {[full_name |-> "Student", email |-> e, password |-> "secret"] : e \in Emails} \cup
  {[full_name |-> MISSING, email |-> STUDENT_EMAIL, password |-> "secret"],
   [full_name |-> "Student", email |-> MISSING, password |-> "secret"],
   [full_name |-> "Student", email |-> STUDENT_EMAIL, password |-> MISSING]}

\* What exponential_backoff_fetch's body can return, for the double.
StubResults ==
  {NONE, Dict("one", PLAIN_ANSWER), Dict("one", QUOTED_ANSWER),
   Dict("one", NULL), Dict("one", EMPTY), Dict("missing", NULL), Dict("empty", NULL)}

Next ==
  \/ \E c \in Clients, f \in RegisterForms, db \in BOOLEAN :
        register(c, f.full_name, f.email, f.password, db)
  \/ \E c \in Clients, e \in Emails, p \in Passwords, db \in BOOLEAN :
        student_login(c, e, p, db)
  \/ \E c \in Clients, e \in Emails, p \in Passwords, db \in BOOLEAN :
        admin_login(c, e, p, db)
  \/ \E c \in Clients : logout(c)
  \/ \E c \in Clients : student_dashboard(c)
  \/ \E c \in Clients : admin_dashboard(c)
  \/ \E c \in Clients, db \in BOOLEAN : get_chat_history(c, db)
  \/ \E c \in Clients, q \in QueryInputs, db \in BOOLEAN :
        ChatApiStart(c, q, db, exponential_backoff_fetch_call)
  \/ \E r \in reqs : ChatApiCommit(r)
  \/ \E r \in reqs : ChatApiError(r)
  \/ \E c \in Clients, db \in BOOLEAN : get_pending_queries(c, db)
  \/ \E c \in Clients, id \in ChatIdInputs, a \in AdminInputs, db \in BOOLEAN :
        AdminAnswerStart(c, id, a, db)
  \/ \E r \in reqs : AdminAnswerResume(r)
  \/ \E r \in reqs : AdminAnswerCommit(r)
  \/ \E r \in reqs : AdminAnswerError(r)

Init == WebInit /\ AgentIdle

Spec == Init /\ [][Next]_vars

\* The application with exponential_backoff_fetch replaced by the double.
NextStub ==
  \/ \E c \in Clients, f \in RegisterForms, db \in BOOLEAN :
        register(c, f.full_name, f.email, f.password, db)
  \/ \E c \in Clients, e \in Emails, p \in Passwords, db \in BOOLEAN :
        student_login(c, e, p, db)
  \/ \E c \in Clients, e \in Emails, p \in Passwords, db \in BOOLEAN :
        admin_login(c, e, p, db)
  \/ \E c \in Clients : logout(c)
  \/ \E c \in Clients : student_dashboard(c)
  \/ \E c \in Clients : admin_dashboard(c)
  \/ \E c \in Clients, db \in BOOLEAN : get_chat_history(c, db)
  \/ \E c \in Clients, q \in QueryInputs, db \in BOOLEAN, rd \in StubResults :
        ChatApiStart(c, q, db, rd)
  \/ \E r \in reqs : ChatApiCommit(r)
  \/ \E r \in reqs : ChatApiError(r)
  \/ \E c \in Clients, db \in BOOLEAN : get_pending_queries(c, db)
  \/ \E c \in Clients, id \in ChatIdInputs, a \in AdminInputs, db \in BOOLEAN :
        AdminAnswerStart(c, id, a, db)
  \/ \E r \in reqs : AdminAnswerResume(r)
  \/ \E r \in reqs : AdminAnswerCommit(r)
  \/ \E r \in reqs : AdminAnswerError(r)

SpecStub == Init /\ [][NextStub]_vars

\* The account and student-side handlers of the application as shipped, with
\* a second student.
NextUsers ==
  \/ \E c \in Clients, f \in UserForms, db \in BOOLEAN :
        register(c, f.full_name, f.email, f.password, db)
  \/ \E c \in Clients, e \in AllEmails, p \in Passwords, db \in BOOLEAN :
        student_login(c, e, p, db)
  \/ \E c \in Clients, e \in AllEmails, p \in Passwords, db \in BOOLEAN :
        admin_login(c, e, p, db)
  \/ \E c \in Clients : logout(c)
  \/ \E c \in Clients : student_dashboard(c)
  \/ \E c \in Clients : admin_dashboard(c)
  \/ \E c \in Clients, db \in BOOLEAN : get_chat_history(c, db)
  \/ \E c \in Clients, q \in QueryInputs, db \in BOOLEAN :
        ChatApiStart(c, q, db, exponential_backoff_fetch_call)
  \/ \E r \in reqs : ChatApiCommit(r)
  \/ \E r \in reqs : ChatApiError(r)

SpecUsers == Init /\ [][NextUsers]_vars

\* The query ledger: chat_api over the double and admin_answer_query, with
\* the logins that open their sessions.
NextLedger ==
  \/ \E c \in Clients : register(c, "Student", STUDENT_EMAIL, "secret", TRUE)
  \/ \E c \in Clients : student_login(c, STUDENT_EMAIL, "secret", TRUE)
  \/ \E c \in Clients : admin_login(c, ADMIN_EMAIL, "admin", TRUE)
  \/ \E c \in Clients, rd \in StubResults : ChatApiStart(c, QUERY_TEXT, TRUE, rd)
  \/ \E r \in reqs : ChatApiCommit(r)
  \/ \E r \in reqs : ChatApiError(r)
  \/ \E c \in Clients, id \in ChatIdInputs, a \in AdminInputs :
        AdminAnswerStart(c, id, a, TRUE)
  \/ \E r \in reqs : AdminAnswerResume(r)
  \/ \E r \in reqs : AdminAnswerCommit(r)
  \/ \E r \in reqs : AdminAnswerError(r)

SpecLedger == Init /\ [][NextLedger]_vars

\* The agent module alone.
InitFetch == WebInit /\ AgentInit

NextFetch ==
  \/ FetchReturn
  \/ FetchRetry
  \/ FetchHttpBreak
  \/ FetchExceptionBreak
  \/ GetAiResponse

SpecFetch == InitFetch /\ [][NextFetch]_vars

\* ======================================================================
\* Properties
\* ======================================================================
Pending(id)  == id \in DOMAIN chat_history /\ chat_history[id].query_status = "pending"
Answered(id) == id \in DOMAIN chat_history /\ chat_history[id].query_status = "answered"

Range(seq) == {seq[i] : i \in 1..Len(seq)}

\* The texts by which get_ai_response reports that it has no answer.
AiFailureTexts == {SORRY_MSG, UNAVAILABLE_MSG}

\* Request r's chat_api transaction commits in this step.
ChatCommits(r) ==
  /\ r.pc = "inserted"
  /\ r.chat_id \notin DOMAIN chat_history
  /\ r.chat_id \in DOMAIN chat_history'

\* Request r's admin_answer_query transaction commits in this step.
AnswerCommits(r) ==
  /\ r.pc = "updated"
  /\ r \notin reqs'
  /\ chat_history' # chat_history

\* C1: in every committed state of chat_history a row's response_text is
\* non-null if and only if its query_status is 'answered'.
C1_AnswerTextIffAnswered ==
  \A id \in DOMAIN chat_history :
     (chat_history[id].response_text # NULL) <=> (chat_history[id].query_status = "answered")

\* C2: when the AI call of chat_api fails, the row is committed 'pending' with
\* no answer text and no answer time, and the client receives the fixed
\* fallback message with status 'pending'.
C2_FailureLeavesUnresolved ==
  [][\A r \in reqs :
       (ChatCommits(r) /\ r.ai_response_text \in AiFailureTexts) =>
          LET row == chat_history'[r.chat_id] IN
          /\ row.query_status = "pending"
          /\ row.response_text = NULL
          /\ row.response_time = NULL_TIME
          /\ resp'.text = FALLBACK_MSG
          /\ resp'.status = "pending"]_vars

C4_PendingUntilAnswered ==
  /\ []((resp.handler = "get_pending_queries" /\ resp.http = 200) =>
          Range(resp.rows) = {id \in DOMAIN chat_history : Pending(id)})
  /\ [][\A id \in DOMAIN chat_history :
          /\ Answered(id) => chat_history'[id].query_status = "answered"
          /\ (Pending(id) /\ chat_history'[id].query_status # "pending") =>
                \E r \in reqs :
                   /\ AnswerCommits(r)
                   /\ r.chat_id = id
                   /\ chat_history'[id].query_status = "answered"
                   /\ chat_history'[id].is_admin_response = TRUE
                   /\ chat_history'[id].response_text = r.text
                   /\ resp'.handler = "admin_answer_query"
                   /\ resp'.http = 200]_vars

\* C4's case: a pending list served after an admin answered one of two
\* pending queries names the other and not the answered one.
C4_Witness ==
  /\ resp.handler = "get_pending_queries" /\ resp.http = 200
  /\ \E a, b \in DOMAIN chat_history :
        /\ Answered(a) /\ chat_history[a].is_admin_response
        /\ a \notin Range(resp.rows)
        /\ b \in Range(resp.rows)

\* C5: admin_answer_query changes a row only when a row with the given id
\* exists and is 'pending'; for an absent id or a row already answered it
\* answers 404 and leaves every row as it was.
C5_AnswerOnlyPending ==
  /\ []((resp.handler = "admin_answer_query" /\ resp.rowcount = 0) =>
          (resp.http = 404 /\ ~Pending(resp.chat_id)))
  /\ [][/\ \A id \in DOMAIN chat_history :
             chat_history'[id] # chat_history[id] =>
                /\ Pending(id)
                /\ resp'.handler = "admin_answer_query"
                /\ resp'.http = 200 /\ resp'.chat_id = id
        /\ \A r \in reqs' \ reqs :
             r.pc = "updated" => Pending(r.chat_id)
        /\ (resp'.handler = "admin_answer_query" /\ resp'.http \in 400..499) =>
             chat_history' = chat_history]_vars

\* C5's case: a second answer attempt on a row an admin already answered was
\* turned down with 404.
C5_Witness ==
  /\ resp.handler = "admin_answer_query" /\ resp.http = 404
  /\ Answered(resp.chat_id)
  /\ chat_history[resp.chat_id].is_admin_response
  /\ ~resp.waited

\* C6: of the concurrent resolution attempts on one query id exactly one
\* writer's answer is stored; every other writer observes zero rows affected
\* and overwrites nothing.
C6_OneWriterWins ==
  /\ [](\A v, w \in reqs :
          (v # w /\ v.pc \in {"inserted", "updated"} /\ w.pc = "updated")
             => v.chat_id # w.chat_id)
  /\ []((resp.handler = "admin_answer_query" /\ resp.http = 200) =>
          (resp.rowcount = 1 /\ chat_history[resp.chat_id].response_text = resp.text))
  /\ []((resp.handler = "admin_answer_query" /\ resp.http = 404) => resp.rowcount = 0)
  /\ [][/\ \A id \in DOMAIN chat_history :
             Answered(id) => chat_history'[id] = chat_history[id]
        /\ \A r \in reqs :
             AnswerCommits(r) =>
                /\ Pending(r.chat_id)
                /\ chat_history'[r.chat_id].response_text = r.text]_vars

\* C6's case: two admin_answer_query requests raced on one row; the one that
\* waited for the row lock found the row answered and got rowcount 0.
C6_Witness ==
  /\ resp.handler = "admin_answer_query" /\ resp.http = 404
  /\ resp.waited /\ resp.rowcount = 0
  /\ Answered(resp.chat_id)
  /\ chat_history[resp.chat_id].is_admin_response

\* C6's second case: an admin_answer_query aimed at the id of a chat_api
\* request still in flight saw no row.
C6_WitnessInFlight ==
  \E r \in reqs :
     /\ r.pc = "inserted"
     /\ resp.handler = "admin_answer_query" /\ resp.http = 404
     /\ resp.chat_id = r.chat_id

\* ---- the agent ----------------------------------------------------------
FetchReturned == entry = "exponential_backoff_fetch" /\ f_pc = "returned"
GatewayReturned == entry = "get_ai_response" /\ f_pc = "returned"

\* C7: exponential_backoff_fetch retries, while attempts remain, after a
\* transport error, a timeout and HTTP 429, 500, 502 or 503; it gives up
\* without a further attempt only on another HTTP error or with the attempt
\* budget exhausted.
C7_RetriesTransient ==
  (FetchReturned /\ response_data = NONE) =>
     \/ sent = max_retries
     \/ /\ script[sent].kind = "HTTPError"
        /\ script[sent].status \notin {429, 500, 502, 503}

\* C8: against a transport that answers every request with HTTP 500 the
\* gateway returns a failure after exactly max_retries requests and
\* max_retries - 1 sleeps; whatever the transport does, get_ai_response
\* returns a string.
C8_AlwaysFailingTransport ==
  GatewayReturned =>
     /\ ai_result # NULL
     /\ (\A k \in 1..max_retries : script[k] = HttpError(500)) =>
           /\ sent = max_retries
           /\ Len(sleeps) = max_retries - 1
           /\ ai_result \in AiFailureTexts

\* C9: against a transport that fails twice and then succeeds the gateway
\* returns the successful response's text after exactly 3 requests and 2
\* sleeps, the second sleep's base delay larger than the first's.
C9_FailTwiceThenSucceed ==
  (/\ GatewayReturned
   /\ script[1] = HttpError(500) /\ script[2] = HttpError(500)
   /\ script[3] = Json("one", PLAIN_ANSWER)) =>
     /\ ai_result = PLAIN_ANSWER
     /\ sent = 3
     /\ Len(sleeps) = 2
     /\ sleeps[2].base > sleeps[1].base

\* What the body of exponential_backoff_fetch does in C8's and C9's cases
\* when it is run to its end.
Fetch_BodyRetries ==
  FetchReturned =>
     /\ (\A k \in 1..max_retries : script[k] = HttpError(500)) =>
           (sent = max_retries /\ Len(sleeps) = max_retries - 1 /\ response_data = NONE)
     /\ (/\ script[1] = HttpError(500) /\ script[2] = HttpError(500)
         /\ script[3] = Json("one", PLAIN_ANSWER)) =>
           /\ response_data = Dict("one", PLAIN_ANSWER)
           /\ sent = 3 /\ Len(sleeps) = 2
           /\ sleeps[2].base > sleeps[1].base

Holds(c, role) == session[c].user_id # 0 /\ session[c].user_role = role

NoTableChanges == UNCHANGED <<users, users_seq, chat_history, chat_seq, reqs, session>>

StudentGuarded == {"student_dashboard", "chat_api", "get_chat_history"}
AdminGuarded   == {"admin_dashboard", "get_pending_queries", "admin_answer_query"}

\* This step sends a response of its own to a request it received: it is not
\* the end of a request that was in flight.
Answers(handlers) ==
  /\ resp' # resp
  /\ resp'.handler \in handlers
  /\ reqs \subseteq reqs'

\* C11: the body of a student-guarded handler runs only with a session that
\* holds a user_id with role 'student', the body of an admin-guarded handler
\* only with one of role 'admin'; any other request is redirected to the
\* matching login page and changes no table.
C11_GuardedRoutes ==
  [][\A c \in Clients :
       /\ (Answers(StudentGuarded) /\ ~Holds(c, "student")) =>
             /\ resp' = Redirect(resp'.handler, "student_login")
             /\ NoTableChanges
       /\ (Answers(AdminGuarded) /\ ~Holds(c, "admin")) =>
             /\ resp' = Redirect(resp'.handler, "admin_login")
             /\ NoTableChanges
       /\ \A r \in reqs' \ reqs :
             \/ r.pc = "inserted" /\ Holds(c, "student") /\ r.user_id = session[c].user_id
             \/ r.pc \in {"waiting", "updated"} /\ Holds(c, "admin")
             \/ [r EXCEPT !.pc = "waiting"] \in reqs]_vars

\* C11's case: an admin's request to chat_api was redirected to the student
\* login while a student's query was pending.
C11_Witness ==
  /\ resp = Redirect("chat_api", "student_login")
  /\ \E c \in Clients : Holds(c, "admin")
  /\ \E id \in DOMAIN chat_history : Pending(id)

LoginHandlers == {"student_login", "admin_login"}

\* C12: a session becomes authenticated only by a successful register or
\* login and then holds the id and the stored role of that user record; a
\* failed login leaves the session as it was; after logout the session holds
\* neither user_id nor user_role, so every guarded route redirects until the
\* next successful login.
C12_SessionLifecycle ==
  /\ [](\A c \in Clients :
          \/ session[c] = NoSession
          \/ /\ session[c].user_id \in DOMAIN users
             /\ session[c].user_role = users[session[c].user_id].user_role)
  /\ [][\A c \in Clients :
          /\ session'[c] # session[c] =>
                \/ /\ resp'.handler \in LoginHandlers \cup {"register"}
                   /\ resp'.http = 200
                   /\ session'[c] # NoSession
                \/ /\ resp'.handler = "logout"
                   /\ session'[c] = NoSession
          /\ (resp'.handler = "register" /\ resp'.http = 200 /\ users' # users) =>
                session'[c].user_id \in DOMAIN users' \ DOMAIN users
          /\ (resp'.handler \in LoginHandlers /\ resp'.http = 200) =>
                \A e \in AllEmails, p \in Passwords :
                   (student_login(c, e, p, TRUE) \/ admin_login(c, e, p, TRUE)) =>
                      users[session'[c].user_id].email = e
          /\ (resp'.handler \in LoginHandlers /\ resp'.http # 200) =>
                session'[c] = session[c]
          /\ (resp' # resp /\ resp'.handler = "logout") => session'[c] = NoSession
          /\ (Answers(StudentGuarded \cup AdminGuarded) /\ session[c] = NoSession) =>
                resp'.http = 302]_vars

\* C12's case: after a registration (which logs the student in) and a
\* logout, the student dashboard redirected to the login page.
C12_Witness ==
  /\ resp = Redirect("student_dashboard", "student_login")
  /\ \A c \in Clients : session[c] = NoSession
  /\ \E u \in DOMAIN users : users[u].user_role = "student"

\* C13: registering with an email already present in users, a student's or
\* the default admin's, fails with 409, adds no row, changes no existing row
\* and does not log the caller in; at most one users row exists per email.
C13_DuplicateEmail ==
  /\ [](\A u, v \in DOMAIN users : users[u].email = users[v].email => u = v)
  /\ [][\A c \in Clients :
          /\ (resp'.handler = "register" /\ resp'.http = 409) =>
                (users' = users /\ session' = session)
          /\ resp'.handler = "register" =>
                \A f \in UserForms :
                   (/\ register(c, f.full_name, f.email, f.password, TRUE)
                    /\ \E u \in DOMAIN users : users[u].email = f.email) =>
                      /\ resp' = Message("register", 409, "Email already registered.")
                      /\ users' = users
                      /\ session' = session]_vars

\* C13's case: a registration with the default admin's email, the only row
\* of users, was turned down with 409 and left the caller logged out.
C13_Witness ==
  /\ resp.handler = "register" /\ resp.http = 409
  /\ DOMAIN users = {1} /\ users[1].email = ADMIN_EMAIL
  /\ \A c \in Clients : session[c] = NoSession

\* C14: after a successful register with a fresh email and a password, a
\* later student_login with the same email and password succeeds and
\* establishes a student session for the user id that registration created,
\* as long as nothing changed that user record in between.
C14_RegisterThenLogin ==
  [][\A c \in Clients :
       /\ (resp'.handler = "register" /\ resp'.http = 200 /\ users' # users) =>
             \A f \in UserForms :
                register(c, f.full_name, f.email, f.password, TRUE) =>
                   /\ DOMAIN users' = DOMAIN users \cup {users_seq'}
                   /\ users_seq' \notin DOMAIN users
                   /\ users'[users_seq'] =
                        [email |-> f.email, user_role |-> "student",
                         password_hash |-> generate_password_hash(f.password)]
       /\ \A u \in DOMAIN users : users'[u] = users[u]
       /\ resp'.handler = "student_login" =>
             \A e \in AllEmails, p \in Passwords :
                \A u \in DOMAIN users :
                   (/\ student_login(c, e, p, TRUE)
                    /\ users[u] = [email |-> e, user_role |-> "student",
                                   password_hash |-> generate_password_hash(p)]) =>
                      /\ resp'.http = 200
                      /\ session'[c] = [user_id |-> u, user_role |-> "student"]]_vars

\* C14's case: a student who registered and was logged out since is logged
\* in again by student_login, under the id the registration gave.
C14_Witness ==
  /\ resp.handler = "student_login" /\ resp.http = 200
  /\ \E c \in Clients :
        /\ Holds(c, "student")
        /\ session[c].user_id \in DOMAIN users
        /\ users[session[c].user_id].password_hash = generate_password_hash("secret")

\* ---- the ledger -----------------------------------------------------------
ListHandlers == {"get_pending_queries", "get_chat_history"}

\* C15: chat_api's INSERT and UPDATE are committed together or not at all,
\* whatever step fails: no request observes a row that is inserted but not
\* finalized, and every committed row has query_status 'pending' or
\* 'answered', never the transient 'co'.
C15_ChatApiAtomic ==
  /\ [](\A id \in DOMAIN chat_history :
          /\ chat_history[id].query_status \in {"pending", "answered"}
          /\ chat_history[id].response_time # NULL_TIME
          /\ \A r \in reqs : r.pc = "inserted" => r.chat_id # id)
  /\ [](resp.handler \in ListHandlers => Range(resp.rows) \subseteq DOMAIN chat_history)
  /\ [][/\ \A id \in DOMAIN chat_history' \ DOMAIN chat_history :
             /\ \E r \in reqs : ChatCommits(r) /\ r.chat_id = id
             /\ resp'.handler = "chat_api" /\ resp'.http = 200
        /\ (resp'.handler = "chat_api" /\ resp'.http # 200) =>
             chat_history' = chat_history
        /\ \A r \in reqs :
             (r.pc = "inserted" /\ r \notin reqs' /\ ~ChatCommits(r)) =>
                (chat_history' = chat_history /\ resp'.http = 500)]_vars

\* C15's case: a chat_api request failed after its INSERT and answered 500;
\* its row is in no committed state, while a request that started later has
\* committed its own.
C15_Witness ==
  /\ resp.handler = "chat_api" /\ resp.http = 500 /\ resp.chat_id # 0
  /\ resp.chat_id \notin DOMAIN chat_history
  /\ \E id \in DOMAIN chat_history : id > resp.chat_id

\* C16: get_chat_history returns the session user's queries newest-first: of
\* any two returned rows the one created later comes earlier in the list.
C16_HistoryNewestFirst ==
  (resp.handler = "get_chat_history" /\ resp.http = 200) =>
     \A i, j \in 1..Len(resp.rows) :
        i < j => QueryTime(resp.rows[i]) > QueryTime(resp.rows[j])

\* The order get_chat_history does return: oldest-first.
History_OldestFirst ==
  (resp.handler = "get_chat_history" /\ resp.http = 200) =>
     \A i, j \in 1..Len(resp.rows) :
        i < j => QueryTime(resp.rows[i]) < QueryTime(resp.rows[j])

\* C17: get_pending_queries returns exactly the rows whose status is
\* 'pending', oldest-first: of any two pending rows the one created earlier
\* comes earlier in the list.
C17_PendingFifo ==
  (resp.handler = "get_pending_queries" /\ resp.http = 200) =>
     /\ \A id \in DOMAIN chat_history : Pending(id) <=> id \in Range(resp.rows)
     /\ Len(resp.rows) = Cardinality(Range(resp.rows))
     /\ \A a, b \in DOMAIN chat_history :
           (Pending(a) /\ Pending(b) /\ QueryTime(a) < QueryTime(b)) =>
              \E i, j \in 1..Len(resp.rows) :
                 i < j /\ resp.rows[i] = a /\ resp.rows[j] = b

\* C17's case: the pending list holds two queries, the older one first.
C17_Witness ==
  /\ resp.handler = "get_pending_queries" /\ resp.http = 200
  /\ Len(resp.rows) = 2
  /\ chat_history[resp.rows[1]].query_time < chat_history[resp.rows[2]].query_time

\* ---- validation -----------------------------------------------------------
Rejected == resp'.http \in 400..499 /\ NoTableChanges

\* C18: a request that lacks a required field (register without full_name,
\* email or password; chat_api without query text; admin_answer_query
\* without chat_id or response) is rejected with a 4xx status and leaves
\* users, chat_history and the session unchanged.
C18_MissingFieldRejected ==
  [][\A c \in Clients :
       /\ resp'.handler = "register" =>
             \A f \in RegisterForms :
                (/\ MISSING \in {f.full_name, f.email, f.password}
                 /\ register(c, f.full_name, f.email, f.password, TRUE)) => Rejected
       /\ (resp'.handler = "chat_api" /\ Holds(c, "student")) =>
             \A q \in {NULL, EMPTY} :
                ChatApiStart(c, q, TRUE, exponential_backoff_fetch_call) => Rejected
       /\ (resp'.handler = "admin_answer_query" /\ Holds(c, "admin")) =>
             \A id \in ChatIdInputs, a \in AdminInputs :
                (/\ id = 0 \/ a = NULL
                 /\ AdminAnswerStart(c, id, a, TRUE)) => Rejected]_vars

\* What does hold: such a request changes nothing, whatever its status.
MissingField_NoSideEffects ==
  [][\A c \in Clients :
       resp'.handler = "register" =>
          \A f \in RegisterForms :
             (/\ MISSING \in {f.full_name, f.email, f.password}
              /\ register(c, f.full_name, f.email, f.password, TRUE)) =>
                (resp'.http = 500 /\ NoTableChanges)]_vars

\* ---- login failures -------------------------------------------------------
\* The three ways a login with (email, password) for a role fails.
UnknownEmail(email) == ~\E u \in DOMAIN users : users[u].email = email
OtherRoleOnly(email, role) ==
  \E u \in DOMAIN users : users[u].email = email /\ users[u].user_role # role
WrongPassword(email, password, role) ==
  \E u \in DOMAIN users :
     /\ users[u].email = email /\ users[u].user_role = role
     /\ users[u].password_hash # generate_password_hash(password)

\* C19: a failed student_login or admin_login returns the same status, 401,
\* and the same message whether the email is unknown, is registered only
\* under the other role, or is known with a wrong password.
C19_LoginFailureUniform ==
  [][\A c \in Clients :
       resp'.handler \in LoginHandlers =>
          \A e \in AllEmails, p \in Passwords :
             /\ (/\ student_login(c, e, p, TRUE)
                 /\ \/ UnknownEmail(e)
                    \/ OtherRoleOnly(e, "student")
                    \/ WrongPassword(e, p, "student")) =>
                   resp' = Message("student_login", 401, INVALID_MSG)
             /\ (/\ admin_login(c, e, p, TRUE)
                 /\ \/ UnknownEmail(e)
                    \/ OtherRoleOnly(e, "admin")
                    \/ WrongPassword(e, p, "admin")) =>
                   resp' = Message("admin_login", 401, INVALID_MSG)]_vars

\* C19's case: student_login answered 401 in a state where each of the three
\* kinds of failing credentials exists.
C19_Witness ==
  /\ resp = Message("student_login", 401, INVALID_MSG)
  /\ UnknownEmail(OTHER_EMAIL)
  /\ OtherRoleOnly(ADMIN_EMAIL, "student")
  /\ WrongPassword(STUDENT_EMAIL, "admin", "student")

\* ---- isolation ------------------------------------------------------------
\* C20: a student's request never reads or mutates another user's query: the
\* row chat_api inserts and updates has the session's user_id, chat_api
\* updates no other row, and get_chat_history returns only rows whose
\* user_id is the session's.
C20_StudentIsolation ==
  [][\A c \in Clients :
       /\ \A r \in reqs' \ reqs :
             r.pc = "inserted" => r.user_id = session[c].user_id
       /\ \A r \in reqs :
             ChatCommits(r) =>
                /\ chat_history'[r.chat_id].user_id = r.user_id
                /\ \A id \in DOMAIN chat_history : chat_history'[id] = chat_history[id]
                /\ DOMAIN chat_history' = DOMAIN chat_history \cup {r.chat_id}
       /\ (Answers({"get_chat_history"}) /\ resp'.http = 200) =>
             Range(resp'.rows) =
               {id \in DOMAIN chat_history : chat_history[id].user_id = session[c].user_id}]_vars

\* C20's case: a student's history lists that student's query and leaves
\* out the query of another student.
C20_Witness ==
  /\ resp.handler = "get_chat_history" /\ resp.http = 200
  /\ resp.rows # << >>
  /\ \E id \in DOMAIN chat_history :
        /\ id \notin Range(resp.rows)
        /\ \A k \in Range(resp.rows) :
              chat_history[k].user_id # chat_history[id].user_id

\* ---- the except branch of chat_api ---------------------------------------
\* C21: if chat_api's INSERT succeeded and a later step raised, then after
\* the 500 response the query's row exists in chat_history with status
\* 'pending', so the admin's pending list shows it and it is not lost.
C21_FailedChatStaysPending ==
  (resp.handler = "chat_api" /\ resp.http = 500 /\ resp.chat_id # 0) =>
     Pending(resp.chat_id)

\* What the except branch does leave: no row under the id the INSERT
\* returned.
FailedChat_RowLost ==
  (resp.handler = "chat_api" /\ resp.http = 500 /\ resp.chat_id # 0) =>
     resp.chat_id \notin DOMAIN chat_history

\* ---- who answered ---------------------------------------------------------
AdminAnswered(id) == id \in DOMAIN chat_history /\ chat_history[id].is_admin_response

\* C22: is_admin_response is true for a row only if a successful
\* admin_answer_query resolved it: such a row always has status 'answered',
\* and a row chat_api answered with the AI's text keeps is_admin_response
\* false forever.
C22_AdminFlag ==
  /\ [](\A id \in DOMAIN chat_history : AdminAnswered(id) => Answered(id))
  /\ [][\A id \in DOMAIN chat_history' :
          /\ (chat_history'[id].is_admin_response /\ ~AdminAnswered(id)) =>
                /\ Pending(id)
                /\ \E r \in reqs : AnswerCommits(r) /\ r.chat_id = id
                /\ resp'.handler = "admin_answer_query" /\ resp'.http = 200
          /\ (Answered(id) /\ ~AdminAnswered(id)) =>
                chat_history'[id] = chat_history[id]
          /\ AdminAnswered(id) => chat_history'[id].is_admin_response]_vars

\* C22's case: an admin's answer to a row the AI had answered was turned
\* down, and the row is still the AI's, beside a row an admin resolved.
C22_Witness ==
  /\ resp.handler = "admin_answer_query" /\ resp.http = 404
  /\ Answered(resp.chat_id) /\ ~AdminAnswered(resp.chat_id)
  /\ \E id \in DOMAIN chat_history : AdminAnswered(id)

====
